---- MODULE Spec2Model ----
(***************************************************************************)
(* The parameter re-simulation engine of stairs-ai-demo                    *)
(* (web/src/lib/computeDerived.ts): simulateDebounce folds a debounce      *)
(* state machine over a list of frame packets.                             *)
(*                                                                         *)
(* Units.  Distances and thresholds are in hundredths (0.05 is 5), a       *)
(* debounceDuration is in hundredths of a second (0.55 s is 55), and a     *)
(* time computed by the code (timestamp_sec of the generated input,        *)
(* time_in_pending) is in ticks of 1/(100 * fps) second, so that every     *)
(* quotient the code forms is an integer here.                             *)
(*                                                                         *)
(* An optional value (T | null) is a sequence of length 0 (null) or 1.     *)
(* A StateTuple is a pair <<compliance, phone>>; pendingState, which is    *)
(* StateTuple | null, is <<>> when null.                                   *)
(*                                                                         *)
(* Each call of simulateDebounce is a run r \in Runs with its own locals.  *)
(* One step of a run is one iteration of the for-loop (lines 109-190).     *)
(***************************************************************************)
EXTENDS Integers, Sequences, FiniteSets, TLC

VARIABLES
  packets,            \* the input FramePacket[] shared by all runs
  phoneThreshold,     \* [run -> argument phoneThreshold]
  debounceDuration,   \* [run -> argument debounceDuration]
  pc,                 \* [run -> "idle" | "loop" | "returned" | "threw"]
  idx,                \* [run -> 1-based position of the for-of iterator]
  stableState,        \* [run -> StateTuple]
  pendingState,       \* [run -> StateTuple | null]
  pendingFrameCount,  \* [run -> integer]
  events,             \* [run -> SimulatedEvent[]]
  processedPackets,   \* [run -> FramePacket[]]
  compliantFrames,    \* [run -> integer]
  nonCompliantFrames, \* [run -> integer]
  phoneFrames,        \* [run -> integer]
  result,             \* [run -> the returned object | null]
  recomputed,         \* the last call of recomputeWithThreshold | null
  comparison,         \* the last return value of compareParameters | null
  labelled            \* the last call of determineEventType | null

vars == <<packets, phoneThreshold, debounceDuration, pc, idx, stableState,
          pendingState, pendingFrameCount, events, processedPackets,
          compliantFrames, nonCompliantFrames, phoneFrames, result,
          recomputed, comparison, labelled>>

\* what a call of simulateDebounce leaves alone: the values held by the host
\* from its calls of the other exported functions
others == <<recomputed, comparison, labelled>>

locals == <<stableState, pendingState, pendingFrameCount, events,
            processedPackets, compliantFrames, nonCompliantFrames, phoneFrames>>

----------------------------------------------------------------------------
(* Program constants *)

DEFAULT_PHONE_THRESHOLD == 5

DEFAULT_DEBOUNCE_DURATION == 55

fps == 24

(* Bounds of the model *)

MaxFrames == 4

PairMaxFrames == 3

TuneMaxFrames == 3

CountedMaxFrames == 3

MaxStat == 2

UnvalidatedMaxFrames == 3

RetimedMaxFrames == 3

Runs == {1, 2}

\* phoneThreshold arguments tried (0.04, 0.05, 0.06)
ThresholdSet == {4, DEFAULT_PHONE_THRESHOLD, 6}

\* debounceDuration arguments tried (0.04 s, 0.05 s, 0.10 s): minFrames 1, 2, 3
DurationSet == {4, 5, 10}

Null == <<>>

Some(x) == <<x>>

----------------------------------------------------------------------------
(* The input: FramePacket records as the upstream pipeline delivers them *)

\* a person as delivered upstream: rail_hit_test and phone_heuristic may each
\* be null; the phone flag was computed with the default threshold
Person(anyHit, dist) ==
  [rail_hit_test |-> IF anyHit = Null THEN Null ELSE Some([any_hit |-> anyHit[1]]),
   phone_heuristic |->
     IF dist = Null THEN Null
     ELSE Some([min_distance |-> dist[1],
                threshold |-> DEFAULT_PHONE_THRESHOLD,
                is_phone_talking |-> dist[1] < DEFAULT_PHONE_THRESHOLD])]

\* the persons lists frames are built from
PersonsKinds ==
  { <<>>,                                    \* nobody in the frame
    << Person(Some(FALSE), Some(10)) >>,     \* off the rail, hand far
    << Person(Some(TRUE), Null) >>,          \* on the rail, no pose
    << Person(Some(FALSE), Some(5)) >>,      \* off the rail, hand at 0.05
    << Person(Null, Some(4)),                \* no rail test, hand at 0.04,
       Person(Some(TRUE), Some(10)) >> }     \*   beside one on the rail

CountTrue(f) == Cardinality({k \in DOMAIN f : f[k]})

\* frame k of the recording: 24 fps, numbered from 0
MkPacket(k, persons) ==
  [frame_number |-> k - 1,
   timestamp_sec |-> (k - 1) * 100,
   metrics |->
     [total_persons |-> Len(persons),
      phone_count |->
        CountTrue([j \in DOMAIN persons |->
                     /\ persons[j].phone_heuristic # Null
                     /\ persons[j].phone_heuristic[1].is_phone_talking])],
   persons |-> persons]

RECURSIVE SeqsUpTo(_, _)
SeqsUpTo(S, n) ==
  IF n = 0 THEN { <<>> }
  ELSE LET shorter == SeqsUpTo(S, n - 1)
       IN  shorter \cup { Append(s, x) : s \in {t \in shorter : Len(t) = n - 1}, x \in S }

\* the frames of the two-run specification: the phone category of the last
\* two depends on the threshold
PairPersonsKinds ==
  { << Person(Some(FALSE), Some(10)) >>,
    << Person(Some(FALSE), Some(5)) >>,
    << Person(Null, Some(4)), Person(Some(TRUE), Some(10)) >> }

Inputs(kinds, n) ==
  { [k \in 1..Len(s) |-> MkPacket(k, s[k])] : s \in SeqsUpTo(kinds, n) }

----------------------------------------------------------------------------
(* recomputePhoneForPerson and the raw state of a frame *)

\* mutant: the comparison turned around
recomputePhoneForPerson_Greater(phoneHeuristic, newThreshold) ==
  IF phoneHeuristic = Null THEN FALSE
  ELSE phoneHeuristic[1].min_distance > newThreshold

\* mutant: a distance equal to the threshold flagged too
recomputePhoneForPerson_AtMost(phoneHeuristic, newThreshold) ==
  IF phoneHeuristic = Null THEN FALSE
  ELSE phoneHeuristic[1].min_distance <= newThreshold

recomputePhoneForPerson(phoneHeuristic, newThreshold) ==
  IF phoneHeuristic = Null THEN FALSE
  ELSE phoneHeuristic[1].min_distance < newThreshold

\* lines 111-121: the person with the phone flag recomputed
recomputedPerson(person, t) ==
  [person EXCEPT !.phone_heuristic =
     IF person.phone_heuristic # Null
     THEN Some([person.phone_heuristic[1] EXCEPT
                  !.is_phone_talking = recomputePhoneForPerson(person.phone_heuristic, t),
                  !.threshold = t])
     ELSE Null]

recomputedPersons(packet, t) ==
  [j \in DOMAIN packet.persons |-> recomputedPerson(packet.persons[j], t)]

\* mutant: all-hit instead of any-hit
anyHoldingRail_All(persons) ==
  \A j \in DOMAIN persons :
     /\ persons[j].rail_hit_test # Null
     /\ persons[j].rail_hit_test[1].any_hit

\* p.rail_hit_test?.any_hit
anyHoldingRail(persons) ==
  \E j \in DOMAIN persons :
     /\ persons[j].rail_hit_test # Null
     /\ persons[j].rail_hit_test[1].any_hit

\* p.phone_heuristic?.is_phone_talking
anyUsingPhone(persons) ==
  \E j \in DOMAIN persons :
     /\ persons[j].phone_heuristic # Null
     /\ persons[j].phone_heuristic[1].is_phone_talking

rawCompliance(packet, persons) ==
  IF packet.metrics.total_persons = 0 THEN "unknown"
  ELSE IF anyHoldingRail(persons) THEN "compliant" ELSE "non_compliant"

rawPhone(persons) ==
  IF anyUsingPhone(persons) THEN "phone" ELSE "no_phone"

rawState(packet, t) ==
  << rawCompliance(packet, recomputedPersons(packet, t)),
     rawPhone(recomputedPersons(packet, t)) >>

\* Math.ceil(debounceDuration * fps), debounceDuration in hundredths
minFrames(d) == (d * fps + 99) \div 100

----------------------------------------------------------------------------
Init ==
  /\ packets \in Inputs(PersonsKinds, MaxFrames)
  /\ phoneThreshold = [r \in Runs |-> DEFAULT_PHONE_THRESHOLD]
  /\ debounceDuration = [r \in Runs |-> DEFAULT_DEBOUNCE_DURATION]
  /\ pc = [r \in Runs |-> "idle"]
  /\ idx = [r \in Runs |-> 1]
  /\ stableState = [r \in Runs |-> <<"unknown", "unknown">>]
  /\ pendingState = [r \in Runs |-> Null]
  /\ pendingFrameCount = [r \in Runs |-> 0]
  /\ events = [r \in Runs |-> <<>>]
  /\ processedPackets = [r \in Runs |-> <<>>]
  /\ compliantFrames = [r \in Runs |-> 0]
  /\ nonCompliantFrames = [r \in Runs |-> 0]
  /\ phoneFrames = [r \in Runs |-> 0]
  /\ result = [r \in Runs |-> Null]
  /\ recomputed = Null
  /\ comparison = Null
  /\ labelled = Null

----------------------------------------------------------------------------
(* simulateDebounce *)

\* lines 85-91: the stats literal of the early return
EmptyStats ==
  [totalFrames |-> 0, compliantFrames |-> 0, nonCompliantFrames |-> 0,
   phoneFrames |-> 0, totalCommits |-> 0]

\* lines 81-93: the early return for an empty list
EmptyResult == [packets |-> <<>>, events |-> <<>>, stats |-> EmptyStats]

\* mutant: an empty list rejected as an error
Call_RejectEmpty(r, t, d) ==
  /\ pc[r] # "loop"
  /\ phoneThreshold' = [phoneThreshold EXCEPT ![r] = t]
  /\ debounceDuration' = [debounceDuration EXCEPT ![r] = d]
  /\ idx' = [idx EXCEPT ![r] = 1]
  /\ stableState' = [stableState EXCEPT ![r] = <<"unknown", "unknown">>]
  /\ pendingState' = [pendingState EXCEPT ![r] = Null]
  /\ pendingFrameCount' = [pendingFrameCount EXCEPT ![r] = 0]
  /\ events' = [events EXCEPT ![r] = <<>>]
  /\ processedPackets' = [processedPackets EXCEPT ![r] = <<>>]
  /\ compliantFrames' = [compliantFrames EXCEPT ![r] = 0]
  /\ nonCompliantFrames' = [nonCompliantFrames EXCEPT ![r] = 0]
  /\ phoneFrames' = [phoneFrames EXCEPT ![r] = 0]
  /\ pc' = [pc EXCEPT ![r] = IF Len(packets) = 0 THEN "threw" ELSE "loop"]
  /\ result' = [result EXCEPT ![r] = Null]
  /\ UNCHANGED <<packets, others>>

\* mutant: the machine state kept in a module-level variable, so that a call
\* starts from the stable state the previous call of the run left
Call_KeepState(r, t, d) ==
  /\ pc[r] # "loop"
  /\ phoneThreshold' = [phoneThreshold EXCEPT ![r] = t]
  /\ debounceDuration' = [debounceDuration EXCEPT ![r] = d]
  /\ idx' = [idx EXCEPT ![r] = 1]
  /\ UNCHANGED stableState
  /\ pendingState' = [pendingState EXCEPT ![r] = Null]
  /\ pendingFrameCount' = [pendingFrameCount EXCEPT ![r] = 0]
  /\ events' = [events EXCEPT ![r] = <<>>]
  /\ processedPackets' = [processedPackets EXCEPT ![r] = <<>>]
  /\ compliantFrames' = [compliantFrames EXCEPT ![r] = 0]
  /\ nonCompliantFrames' = [nonCompliantFrames EXCEPT ![r] = 0]
  /\ phoneFrames' = [phoneFrames EXCEPT ![r] = 0]
  /\ IF Len(packets) = 0
     THEN /\ pc' = [pc EXCEPT ![r] = "returned"]
          /\ result' = [result EXCEPT ![r] = Some(EmptyResult)]
     ELSE /\ pc' = [pc EXCEPT ![r] = "loop"]
          /\ result' = [result EXCEPT ![r] = Null]
  /\ UNCHANGED <<packets, others>>

\* mutant: frames whose timestamps are not non-decreasing rejected as an error
Call_RejectOutOfOrder(r, t, d) ==
  /\ pc[r] # "loop"
  /\ phoneThreshold' = [phoneThreshold EXCEPT ![r] = t]
  /\ debounceDuration' = [debounceDuration EXCEPT ![r] = d]
  /\ idx' = [idx EXCEPT ![r] = 1]
  /\ stableState' = [stableState EXCEPT ![r] = <<"unknown", "unknown">>]
  /\ pendingState' = [pendingState EXCEPT ![r] = Null]
  /\ pendingFrameCount' = [pendingFrameCount EXCEPT ![r] = 0]
  /\ events' = [events EXCEPT ![r] = <<>>]
  /\ processedPackets' = [processedPackets EXCEPT ![r] = <<>>]
  /\ compliantFrames' = [compliantFrames EXCEPT ![r] = 0]
  /\ nonCompliantFrames' = [nonCompliantFrames EXCEPT ![r] = 0]
  /\ phoneFrames' = [phoneFrames EXCEPT ![r] = 0]
  /\ IF Len(packets) = 0
     THEN /\ pc' = [pc EXCEPT ![r] = "returned"]
          /\ result' = [result EXCEPT ![r] = Some(EmptyResult)]
     ELSE /\ pc' = [pc EXCEPT ![r] =
                     IF \E k \in 2..Len(packets) :
                          packets[k].timestamp_sec < packets[k - 1].timestamp_sec
                     THEN "threw" ELSE "loop"]
          /\ result' = [result EXCEPT ![r] = Null]
  /\ UNCHANGED <<packets, others>>

\* A call simulateDebounce(packets, t, d) by the host.  A run that has finished
\* may be called again (TuningLab re-runs the tuned simulation whenever a
\* slider moves); every call starts from the initialisers of lines 98-107.
Call(r, t, d) ==
  /\ pc[r] # "loop"
  /\ phoneThreshold' = [phoneThreshold EXCEPT ![r] = t]
  /\ debounceDuration' = [debounceDuration EXCEPT ![r] = d]
  /\ idx' = [idx EXCEPT ![r] = 1]
  /\ stableState' = [stableState EXCEPT ![r] = <<"unknown", "unknown">>]
  /\ pendingState' = [pendingState EXCEPT ![r] = Null]
  /\ pendingFrameCount' = [pendingFrameCount EXCEPT ![r] = 0]
  /\ events' = [events EXCEPT ![r] = <<>>]
  /\ processedPackets' = [processedPackets EXCEPT ![r] = <<>>]
  /\ compliantFrames' = [compliantFrames EXCEPT ![r] = 0]
  /\ nonCompliantFrames' = [nonCompliantFrames EXCEPT ![r] = 0]
  /\ phoneFrames' = [phoneFrames EXCEPT ![r] = 0]
  /\ IF Len(packets) = 0
     THEN /\ pc' = [pc EXCEPT ![r] = "returned"]
          /\ result' = [result EXCEPT ![r] = Some(EmptyResult)]
     ELSE /\ pc' = [pc EXCEPT ![r] = "loop"]
          /\ result' = [result EXCEPT ![r] = Null]
  /\ UNCHANGED <<packets, others>>

\* the packet of the current iteration and what lines 111-131 derive from it
Packet(r) == packets[idx[r]]

Raw(r) == rawState(Packet(r), phoneThreshold[r])

InLoop(r) == pc[r] = "loop" /\ idx[r] <= Len(packets)

\* mutant: the counters tallied from the debounced stable state
UpdateStats_FromStable(r) ==
  /\ compliantFrames' =
       [compliantFrames EXCEPT ![r] = IF stableState[r][1] = "compliant" THEN @ + 1 ELSE @]
  /\ nonCompliantFrames' =
       [nonCompliantFrames EXCEPT ![r] = IF stableState[r][1] = "non_compliant" THEN @ + 1 ELSE @]
  /\ phoneFrames' =
       [phoneFrames EXCEPT ![r] = IF stableState[r][2] = "phone" THEN @ + 1 ELSE @]

\* mutant: line 135 without its test, unknown frames counted as non-compliant
UpdateStats_ElseNonCompliant(r) ==
  /\ compliantFrames' =
       [compliantFrames EXCEPT ![r] = IF Raw(r)[1] = "compliant" THEN @ + 1 ELSE @]
  /\ nonCompliantFrames' =
       [nonCompliantFrames EXCEPT ![r] = IF Raw(r)[1] # "compliant" THEN @ + 1 ELSE @]
  /\ phoneFrames' =
       [phoneFrames EXCEPT ![r] = IF Raw(r)[2] = "phone" THEN @ + 1 ELSE @]

\* lines 134-136
UpdateStats(r) ==
  /\ compliantFrames' =
       [compliantFrames EXCEPT ![r] = IF Raw(r)[1] = "compliant" THEN @ + 1 ELSE @]
  /\ nonCompliantFrames' =
       [nonCompliantFrames EXCEPT ![r] = IF Raw(r)[1] = "non_compliant" THEN @ + 1 ELSE @]
  /\ phoneFrames' =
       [phoneFrames EXCEPT ![r] = IF Raw(r)[2] = "phone" THEN @ + 1 ELSE @]

\* mutant: the output packet keeps the metrics of the input, phone_count not
\* recounted
OutputPacket_KeepCount(packet, t, d, stable, pending, count) ==
  [frame_number |-> packet.frame_number,
   timestamp_sec |-> packet.timestamp_sec,
   persons |-> recomputedPersons(packet, t),
   metrics |-> packet.metrics,
   state_machine |->
     [current_state |-> stable,
      pending_state |-> pending,
      time_in_pending |-> count * 100,
      debounce_threshold |-> d]]

\* lines 176-189: the output packet, built from the machine's state after the
\* frame's transition
OutputPacket(packet, t, d, stable, pending, count) ==
  [frame_number |-> packet.frame_number,
   timestamp_sec |-> packet.timestamp_sec,
   persons |-> recomputedPersons(packet, t),
   metrics |->
     [packet.metrics EXCEPT
        !.phone_count =
          CountTrue([j \in DOMAIN packet.persons |->
                       /\ recomputedPersons(packet, t)[j].phone_heuristic # Null
                       /\ recomputedPersons(packet, t)[j].phone_heuristic[1].is_phone_talking])],
   state_machine |->
     [current_state |-> stable,
      pending_state |-> pending,
      time_in_pending |-> count * 100,
      debounce_threshold |-> d]]

\* mutant: the recomputed flag and threshold written into the input's person
\* objects instead of into copies
Iteration_InPlace(r, stable, pending, count) ==
  /\ UpdateStats(r)
  /\ stableState' = [stableState EXCEPT ![r] = stable]
  /\ pendingState' = [pendingState EXCEPT ![r] = pending]
  /\ pendingFrameCount' = [pendingFrameCount EXCEPT ![r] = count]
  /\ processedPackets' =
       [processedPackets EXCEPT ![r] =
          Append(@, OutputPacket(Packet(r), phoneThreshold[r], debounceDuration[r],
                                 stable, pending, count))]
  /\ packets' = [packets EXCEPT ![idx[r]].persons =
                   recomputedPersons(Packet(r), phoneThreshold[r])]
  /\ idx' = [idx EXCEPT ![r] = @ + 1]
  /\ UNCHANGED <<phoneThreshold, debounceDuration, pc, events, result, others>>

\* mutant: pendingFrameCount a module-level variable, one counter written by
\* every run
Iteration_SharedCount(r, stable, pending, count) ==
  /\ UpdateStats(r)
  /\ stableState' = [stableState EXCEPT ![r] = stable]
  /\ pendingState' = [pendingState EXCEPT ![r] = pending]
  /\ pendingFrameCount' = [q \in Runs |-> count]
  /\ processedPackets' =
       [processedPackets EXCEPT ![r] =
          Append(@, OutputPacket(Packet(r), phoneThreshold[r], debounceDuration[r],
                                 stable, pending, count))]
  /\ idx' = [idx EXCEPT ![r] = @ + 1]
  /\ UNCHANGED <<packets, phoneThreshold, debounceDuration, pc, events, result, others>>

\* an iteration that runs to its end: the stats, the new machine state, the
\* push of the output packet, and the iterator's advance
Iteration(r, stable, pending, count) ==
  /\ UpdateStats(r)
  /\ stableState' = [stableState EXCEPT ![r] = stable]
  /\ pendingState' = [pendingState EXCEPT ![r] = pending]
  /\ pendingFrameCount' = [pendingFrameCount EXCEPT ![r] = count]
  /\ processedPackets' =
       [processedPackets EXCEPT ![r] =
          Append(@, OutputPacket(Packet(r), phoneThreshold[r], debounceDuration[r],
                                 stable, pending, count))]
  /\ idx' = [idx EXCEPT ![r] = @ + 1]
  /\ UNCHANGED <<packets, phoneThreshold, debounceDuration, pc, events, result, others>>

\* line 139
IsCold(stable) == stable[1] = "unknown" /\ stable[2] = "unknown"

\* mutant: the test of line 141 dropped
coldStartState_Always(stable, raw) == raw

\* lines 141-143: the first valid state becomes stable immediately
coldStartState(stable, raw) == IF raw[1] # "unknown" THEN raw ELSE stable

\* line 144
Differs(raw, stable) == raw[1] # stable[1] \/ raw[2] # stable[2]

\* line 146
SameAsPending(pending, raw) ==
  pending # Null /\ pending[1] = raw[1] /\ pending[2] = raw[2]

\* mutant: the commit one frame early
commitReached_Early(count, d) == count >= minFrames(d) - 1

\* mutant: the comparison of line 149 turned around
commitReached_AtMost(count, d) == count <= minFrames(d)

\* mutant: the commit one frame late
commitReached_Late(count, d) == count > minFrames(d)

\* line 149, evaluated after the increment of line 148
commitReached(count, d) == count >= minFrames(d)

\* lines 139-143
ColdStart(r) ==
  /\ InLoop(r)
  /\ IsCold(stableState[r])
  /\ Iteration(r, coldStartState(stableState[r], Raw(r)),
               pendingState[r], pendingFrameCount[r])

\* lines 170-174: the raw state matches the stable state, pending is cleared
MatchStable(r) ==
  /\ InLoop(r)
  /\ ~IsCold(stableState[r])
  /\ ~Differs(Raw(r), stableState[r])
  /\ Iteration(r, stableState[r], Null, 0)

\* mutant: the run-length tested on the first frame of a candidate too, so
\* that a candidate whose first frame reaches minFrames is committed at once
NewPending_CommitAtOnce(r) ==
  /\ InLoop(r)
  /\ ~IsCold(stableState[r])
  /\ Differs(Raw(r), stableState[r])
  /\ ~SameAsPending(pendingState[r], Raw(r))
  /\ IF commitReached(1, debounceDuration[r])
     THEN /\ UpdateStats(r)
          /\ stableState' = [stableState EXCEPT ![r] = Raw(r)]
          /\ pendingState' = [pendingState EXCEPT ![r] = Null]
          /\ pendingFrameCount' = [pendingFrameCount EXCEPT ![r] = 0]
          /\ pc' = [pc EXCEPT ![r] = "threw"]
          /\ UNCHANGED <<packets, phoneThreshold, debounceDuration, idx, events,
                         processedPackets, result, others>>
     ELSE Iteration(r, stableState[r], Raw(r), 1)

\* mutant: a new candidate takes over the run-length of the one it replaces
NewPending_Accumulate(r) ==
  /\ InLoop(r)
  /\ ~IsCold(stableState[r])
  /\ Differs(Raw(r), stableState[r])
  /\ ~SameAsPending(pendingState[r], Raw(r))
  /\ Iteration(r, stableState[r], Raw(r), pendingFrameCount[r] + 1)

\* mutant: a new candidate becomes the stable state at once, without an event
NewPending_AdoptAtOnce(r) ==
  /\ InLoop(r)
  /\ ~IsCold(stableState[r])
  /\ Differs(Raw(r), stableState[r])
  /\ ~SameAsPending(pendingState[r], Raw(r))
  /\ Iteration(r, Raw(r), Null, 0)

\* lines 165-169: a new pending state
NewPending(r) ==
  /\ InLoop(r)
  /\ ~IsCold(stableState[r])
  /\ Differs(Raw(r), stableState[r])
  /\ ~SameAsPending(pendingState[r], Raw(r))
  /\ Iteration(r, stableState[r], Raw(r), 1)

\* lines 146-149: same as pending, the counter is incremented and stays
\* below minFrames
IncrementPending(r) ==
  /\ InLoop(r)
  /\ ~IsCold(stableState[r])
  /\ Differs(Raw(r), stableState[r])
  /\ SameAsPending(pendingState[r], Raw(r))
  /\ ~commitReached(pendingFrameCount[r] + 1, debounceDuration[r])
  /\ Iteration(r, stableState[r], pendingState[r], pendingFrameCount[r] + 1)

\* lines 149-155: the commit.  Lines 151-154 assign the new machine state;
\* line 155 assigns to commitEvent, an identifier declared nowhere.  The file
\* is an ES module (strict mode), where that assignment throws a
\* ReferenceError: the event of lines 157-163 is never pushed, the output
\* packet of lines 176-189 is never pushed, and the call ends by the
\* exception, returning nothing.
CommitStateChange(r) ==
  /\ InLoop(r)
  /\ ~IsCold(stableState[r])
  /\ Differs(Raw(r), stableState[r])
  /\ SameAsPending(pendingState[r], Raw(r))
  /\ commitReached(pendingFrameCount[r] + 1, debounceDuration[r])
  /\ UpdateStats(r)
  /\ stableState' = [stableState EXCEPT ![r] = Raw(r)]
  /\ pendingState' = [pendingState EXCEPT ![r] = Null]
  /\ pendingFrameCount' = [pendingFrameCount EXCEPT ![r] = 0]
  /\ pc' = [pc EXCEPT ![r] = "threw"]
  /\ UNCHANGED <<packets, phoneThreshold, debounceDuration, idx, events,
                 processedPackets, result, others>>

\* lines 195-201
Stats(r) ==
  [totalFrames |-> Len(packets),
   compliantFrames |-> compliantFrames[r],
   nonCompliantFrames |-> nonCompliantFrames[r],
   phoneFrames |-> phoneFrames[r],
   totalCommits |-> Len(events[r])]

\* lines 192-203: the loop is over, the result is returned
Return(r) ==
  /\ pc[r] = "loop"
  /\ idx[r] > Len(packets)
  /\ pc' = [pc EXCEPT ![r] = "returned"]
  /\ result' = [result EXCEPT ![r] =
                  Some([packets |-> processedPackets[r],
                        events |-> events[r],
                        stats |-> Stats(r)])]
  /\ UNCHANGED <<packets, phoneThreshold, debounceDuration, idx, locals, others>>

\* one step of run r
Step(r) ==
  \/ \E t \in ThresholdSet, d \in DurationSet : Call(r, t, d)
  \/ ColdStart(r)
  \/ MatchStable(r)
  \/ NewPending(r)
  \/ IncrementPending(r)
  \/ CommitStateChange(r)
  \/ Return(r)

\* a single simulation at a time
Next == Step(1)

Spec == Init /\ [][Next]_vars

\* two simulations over the same input, their iterations interleaved in any
\* order (TuningLab holds a baseline run and a tuned run over one packets list)
InitPair ==
  /\ packets \in Inputs(PairPersonsKinds, PairMaxFrames)
  /\ phoneThreshold = [r \in Runs |-> DEFAULT_PHONE_THRESHOLD]
  /\ debounceDuration = [r \in Runs |-> DEFAULT_DEBOUNCE_DURATION]
  /\ pc = [r \in Runs |-> "idle"]
  /\ idx = [r \in Runs |-> 1]
  /\ stableState = [r \in Runs |-> <<"unknown", "unknown">>]
  /\ pendingState = [r \in Runs |-> Null]
  /\ pendingFrameCount = [r \in Runs |-> 0]
  /\ events = [r \in Runs |-> <<>>]
  /\ processedPackets = [r \in Runs |-> <<>>]
  /\ compliantFrames = [r \in Runs |-> 0]
  /\ nonCompliantFrames = [r \in Runs |-> 0]
  /\ phoneFrames = [r \in Runs |-> 0]
  /\ result = [r \in Runs |-> Null]
  /\ recomputed = Null
  /\ comparison = Null
  /\ labelled = Null

NextPair == \E r \in Runs : Step(r)

SpecPair == InitPair /\ [][NextPair]_vars

----------------------------------------------------------------------------
(* recomputeWithThreshold *)

\* every variable of the simulations, as the other exported functions leave it
simulations ==
  <<phoneThreshold, debounceDuration, pc, idx, stableState, pendingState,
    pendingFrameCount, events, processedPackets, compliantFrames,
    nonCompliantFrames, phoneFrames, result>>

\* lines 35-59: a new list, each packet copied with its persons' phone flag
\* and threshold recomputed and metrics.phone_count recounted
recomputeWithThreshold(pkts, t) ==
  [k \in DOMAIN pkts |->
     [pkts[k] EXCEPT
        !.persons = recomputedPersons(pkts[k], t),
        !.metrics.phone_count =
          CountTrue([j \in DOMAIN pkts[k].persons |->
                       /\ recomputedPersons(pkts[k], t)[j].phone_heuristic # Null
                       /\ recomputedPersons(pkts[k], t)[j].phone_heuristic[1].is_phone_talking])]]

\* a call recomputeWithThreshold(packets, t) by the host; the function is
\* synchronous, so it runs between the host's other calls
Recompute(t) ==
  /\ pc[1] # "loop"
  /\ recomputed' = Some([phoneThreshold |-> t,
                         packets |-> recomputeWithThreshold(packets, t)])
  /\ UNCHANGED <<packets, simulations, comparison, labelled>>

\* no simulation started, no other function called yet
Idle ==
  /\ phoneThreshold = [r \in Runs |-> DEFAULT_PHONE_THRESHOLD]
  /\ debounceDuration = [r \in Runs |-> DEFAULT_DEBOUNCE_DURATION]
  /\ pc = [r \in Runs |-> "idle"]
  /\ idx = [r \in Runs |-> 1]
  /\ stableState = [r \in Runs |-> <<"unknown", "unknown">>]
  /\ pendingState = [r \in Runs |-> Null]
  /\ pendingFrameCount = [r \in Runs |-> 0]
  /\ events = [r \in Runs |-> <<>>]
  /\ processedPackets = [r \in Runs |-> <<>>]
  /\ compliantFrames = [r \in Runs |-> 0]
  /\ nonCompliantFrames = [r \in Runs |-> 0]
  /\ phoneFrames = [r \in Runs |-> 0]
  /\ result = [r \in Runs |-> Null]
  /\ recomputed = Null
  /\ comparison = Null
  /\ labelled = Null

\* a host that simulates and recomputes over one packets list
InitTune ==
  /\ packets \in Inputs(PersonsKinds, TuneMaxFrames)
  /\ Idle

NextTune ==
  \/ Step(1)
  \/ \E t \in ThresholdSet : Recompute(t)

SpecTune == InitTune /\ [][NextTune]_vars

----------------------------------------------------------------------------
(* Frames whose aggregate counts disagree with their persons list *)

\* metrics and persons are separate fields of a FramePacket, read from the
\* same JSON; nothing in the core compares them
Miscounted(packet, n) == [packet EXCEPT !.metrics.total_persons = n]

\* persons lists paired with the total_persons delivered with them
CountedKinds ==
  { <<persons, Len(persons)>> : persons \in PersonsKinds }
    \cup { << << Person(Some(TRUE), Null) >>, 0 >>,   \* one on the rail, counted 0
           << <<>>, 1 >> }                            \* nobody listed, counted 1

InitCounted ==
  /\ packets \in { [k \in 1..Len(s) |-> Miscounted(MkPacket(k, s[k][1]), s[k][2])] :
                     s \in SeqsUpTo(CountedKinds, CountedMaxFrames) }
  /\ Idle

SpecCounted == InitCounted /\ [][Next]_vars

----------------------------------------------------------------------------
(* determineEventType and compareParameters, applied to arguments of their
   types *)

\* mutant: the phone axis takes priority for the label
determineEventType_PhoneFirst(oldState, newState) ==
  IF oldState[2] # newState[2]
    THEN (IF newState[2] = "phone" THEN "phone_detected" ELSE "phone_ended")
  ELSE IF oldState[1] # newState[1]
    THEN (IF newState[1] = "compliant" THEN "compliant_start" ELSE "non_compliant_start")
  ELSE "state_change"

\* lines 230-241
determineEventType(oldState, newState) ==
  IF oldState[1] # newState[1]
    THEN (IF newState[1] = "compliant" THEN "compliant_start" ELSE "non_compliant_start")
  ELSE IF oldState[2] # newState[2]
    THEN (IF newState[2] = "phone" THEN "phone_detected" ELSE "phone_ended")
  ELSE "state_change"

\* the state tuples line 162 can pass: the old state is a stable state past
\* the cold start, the new state a raw state
CommitStates ==
  {"compliant", "non_compliant", "unknown"} \X {"phone", "no_phone"}

\* line 162: determineEventType(oldState, stableState); a commit is reached
\* only when the two differ (line 144)
Label(oldState, newState) ==
  /\ oldState # newState
  /\ labelled' = Some([old_state |-> oldState, new_state |-> newState,
                       event_type |-> determineEventType(oldState, newState)])
  /\ UNCHANGED <<packets, simulations, recomputed, comparison>>

\* mutant: the subtractions turned around
compareParameters_Swapped(baselineStats, tunedStats) ==
  [baseline |-> [stats |-> baselineStats],
   tuned |-> [stats |-> tunedStats],
   delta |-> [phoneFramesChange |-> baselineStats.phoneFrames - tunedStats.phoneFrames,
              eventsChange |-> baselineStats.totalCommits - tunedStats.totalCommits]]

\* mutant: the deltas as magnitudes
compareParameters_Magnitude(baselineStats, tunedStats) ==
  LET Abs(x) == IF x < 0 THEN -x ELSE x
  IN  [baseline |-> [stats |-> baselineStats],
       tuned |-> [stats |-> tunedStats],
       delta |-> [phoneFramesChange |-> Abs(tunedStats.phoneFrames - baselineStats.phoneFrames),
                  eventsChange |-> Abs(tunedStats.totalCommits - baselineStats.totalCommits)]]

\* lines 257-264
compareParameters(baselineStats, tunedStats) ==
  [baseline |-> [stats |-> baselineStats],
   tuned |-> [stats |-> tunedStats],
   delta |-> [phoneFramesChange |-> tunedStats.phoneFrames - baselineStats.phoneFrames,
              eventsChange |-> tunedStats.totalCommits - baselineStats.totalCommits]]

\* SimulationStats values of up to MaxStat frames
StatsSet ==
  { [totalFrames |-> n, compliantFrames |-> c, nonCompliantFrames |-> n - c,
     phoneFrames |-> ph, totalCommits |-> e] :
      n \in 0..MaxStat, c \in 0..MaxStat, ph \in 0..MaxStat, e \in 0..MaxStat }
    \ { st \in [totalFrames : 0..MaxStat, compliantFrames : 0..MaxStat,
                 nonCompliantFrames : -MaxStat..MaxStat, phoneFrames : 0..MaxStat,
                 totalCommits : 0..MaxStat] :
           \/ st.compliantFrames > st.totalFrames
           \/ st.phoneFrames > st.totalFrames
           \/ st.totalCommits > st.totalFrames }

\* a call compareParameters(baselineStats, tunedStats) and the value it returns
Compare(baselineStats, tunedStats) ==
  /\ comparison' = Some([baselineStats |-> baselineStats, tunedStats |-> tunedStats,
                         returned |-> compareParameters(baselineStats, tunedStats)])
  /\ UNCHANGED <<packets, simulations, recomputed, labelled>>

InitPure ==
  /\ packets = <<>>
  /\ Idle

\* one application of each function is followed: neither keeps anything from
\* one call to the next
NextPure ==
  \/ /\ labelled = Null
     /\ \E oldState \in CommitStates, newState \in CommitStates : Label(oldState, newState)
  \/ /\ comparison = Null
     /\ \E baselineStats \in StatsSet, tunedStats \in StatsSet :
          Compare(baselineStats, tunedStats)

SpecPure == InitPure /\ [][NextPure]_vars

----------------------------------------------------------------------------
(* debounceDuration passed without validation *)

\* simulateDebounce does not test its debounceDuration argument: -0.05 s and
\* 0 s (minFrames -1 and 0) are taken like 0.10 s (minFrames 3)
DurationSetUnvalidated == {-5, 0, 10}

InitUnvalidated ==
  /\ packets \in Inputs(PersonsKinds, UnvalidatedMaxFrames)
  /\ Idle

NextUnvalidated ==
  \/ \E t \in ThresholdSet, d \in DurationSetUnvalidated : Call(1, t, d)
  \/ ColdStart(1)
  \/ MatchStable(1)
  \/ NewPending(1)
  \/ IncrementPending(1)
  \/ CommitStateChange(1)
  \/ Return(1)

SpecUnvalidated == InitUnvalidated /\ [][NextUnvalidated]_vars

----------------------------------------------------------------------------
(* Frames delivered with any timestamps *)

\* timestamp_sec values of the delivered frames (0 and 1/24 s), in any order
TimeSet == {0, 100}

\* the list with frame k's timestamp_sec replaced by ts[k]
Retimed(pkts, ts) ==
  [k \in DOMAIN pkts |-> [pkts[k] EXCEPT !.timestamp_sec = ts[k]]]

InitRetimed ==
  /\ packets \in UNION { { Retimed(pkts, ts) : ts \in [DOMAIN pkts -> TimeSet] } :
                           pkts \in Inputs(PairPersonsKinds, RetimedMaxFrames) }
  /\ Idle

SpecRetimed == InitRetimed /\ [][Next]_vars

----------------------------------------------------------------------------
(* Vocabulary of the properties *)

\* the raw state of frame j under run r's threshold
RawAt(r, j) == rawState(packets[j], phoneThreshold[r])

\* the output current_state of frame j, once its packet was pushed
Cur(r, j) == processedPackets[r][j].state_machine.current_state

Started(r) == pc[r] # "idle"

Finished(r) == pc[r] \in {"returned", "threw"}

\* the number of frames whose raw state the run has tallied (lines 134-136)
Counted(r) ==
  IF pc[r] = "idle" THEN 0 ELSE IF pc[r] = "threw" THEN idx[r] ELSE idx[r] - 1

\* the frame numbers of frames lo..hi
FrameNumbers(lo, hi) == { packets[k].frame_number : k \in lo..hi }

\* the positions in an event list of the events committed on frames lo..hi
EventsOn(evs, lo, hi) ==
  { e \in DOMAIN evs : evs[e].frame_number \in FrameNumbers(lo, hi) }

\* after frame b the stable state is established and equals b's raw state
\* (nothing is pending)
Established(r, b) ==
  /\ b \in 1..Len(processedPackets[r])
  /\ ~IsCold(Cur(r, b))
  /\ Cur(r, b) = RawAt(r, b)

\* frames b+1..j are a run of exactly minFrames frames of one raw state that
\* differs from the stable state established at b
PersistentRun(r, b, j) ==
  /\ Established(r, b)
  /\ minFrames(debounceDuration[r]) >= 1
  /\ j = b + minFrames(debounceDuration[r])
  /\ j <= Len(packets)
  /\ \A k \in (b + 1)..j : RawAt(r, k) = RawAt(r, j)
  /\ RawAt(r, j) # Cur(r, b)
  /\ j < Len(packets) => RawAt(r, j + 1) # RawAt(r, j)

\* frames b+1..j-1 are a flip of fewer than minFrames frames to one raw state
\* that differs from the stable state established at b, and frame j reverts
TransientFlip(r, b, j) ==
  /\ Established(r, b)
  /\ j \in (b + 2)..Len(packets)
  /\ j - b - 1 < minFrames(debounceDuration[r])
  /\ \A k \in (b + 1)..(j - 1) : RawAt(r, k) = RawAt(r, b + 1)
  /\ RawAt(r, b + 1) # Cur(r, b)
  /\ RawAt(r, j) = Cur(r, b)

----------------------------------------------------------------------------
(* C1 - Debounce commits persistent changes: when, from an established      *)
(* stable state S, the raw state is one new value R for exactly minFrames   *)
(* consecutive frames, the finished call has returned a result with exactly *)
(* one event for that run, on its last frame, with old_state S and          *)
(* new_state R, and that frame's output current_state is R.                 *)
C1_CommitsPersistentChange ==
  \A r \in Runs : Finished(r) =>
    \A b \in 1..Len(packets), j \in 1..Len(packets) :
      PersistentRun(r, b, j) =>
        /\ result[r] # Null
        /\ EventsOn(result[r][1].events, b + 1, j) =
             { e \in DOMAIN result[r][1].events :
                 /\ result[r][1].events[e].frame_number = packets[j].frame_number
                 /\ result[r][1].events[e].old_state = Cur(r, b)
                 /\ result[r][1].events[e].new_state = RawAt(r, j) }
        /\ Cardinality(EventsOn(result[r][1].events, b + 1, j)) = 1
        /\ result[r][1].packets[j].state_machine.current_state = RawAt(r, j)

(* C2 - Debounce suppresses transients: when, from an established stable    *)
(* state S, the raw state flips to one new value for fewer than minFrames   *)
(* frames and then returns to S, the call does not end on those frames, no  *)
(* event is emitted for them, and the output current_state is S on every    *)
(* frame of the flip and on the reverting frame.                            *)
C2_SuppressesTransients ==
  \A r \in Runs :
    \A b \in 1..Len(packets), j \in 1..Len(packets) :
      TransientFlip(r, b, j) =>
        /\ ~(pc[r] = "threw" /\ idx[r] \in (b + 1)..j)
        /\ EventsOn(events[r], b + 1, j) = {}
        /\ \A k \in (b + 1)..j :
             k <= Len(processedPackets[r]) => Cur(r, k) = Cur(r, b)
        /\ result[r] # Null =>
             /\ EventsOn(result[r][1].events, b + 1, j) = {}
             /\ \A k \in (b + 1)..j :
                  result[r][1].packets[k].state_machine.current_state = Cur(r, b)

\* a returned run with a two-frame flip that was suppressed
C2_Witness ==
  \E r \in Runs : \E b \in 1..Len(packets), j \in 1..Len(packets) :
    /\ TransientFlip(r, b, j)
    /\ j - b - 1 = 2
    /\ pc[r] = "returned"

(* C3 - Cold start has no debounce: on the first frame whose raw compliance *)
(* is not unknown the output current_state is that frame's raw state, with  *)
(* pending_state null and time_in_pending 0, and no event is emitted for    *)
(* it; every earlier frame outputs (unknown, unknown) with no pending       *)
(* state; the call does not end on any of these frames.                     *)
C3_ColdStart ==
  \A r \in Runs : Started(r) =>
    \A j \in 1..Len(packets) :
      (\A k \in 1..(j - 1) : RawAt(r, k)[1] = "unknown") =>
        /\ ~(pc[r] = "threw" /\ idx[r] <= j)
        /\ j <= Len(processedPackets[r]) =>
             LET sm == processedPackets[r][j].state_machine
             IN  IF RawAt(r, j)[1] # "unknown"
                 THEN /\ sm.current_state = RawAt(r, j)
                      /\ sm.pending_state = Null
                      /\ sm.time_in_pending = 0
                      /\ EventsOn(events[r], j, j) = {}
                 ELSE /\ sm.current_state = <<"unknown", "unknown">>
                      /\ sm.pending_state = Null

\* a returned run whose first valid frame came after a frame with nobody
C3_Witness ==
  \E r \in Runs :
    /\ pc[r] = "returned"
    /\ Len(packets) >= 3
    /\ RawAt(r, 1)[1] = "unknown"
    /\ RawAt(r, 2)[1] # "unknown"
    /\ result[r][1].packets[2].state_machine.current_state = RawAt(r, 2)

(* C4 - simulateDebounce raises no exception: no call ends by an exception, *)
(* on any path of the per-frame rule.                                       *)
C4_NoException == \A r \in Runs : pc[r] # "threw"

(* C5 - Unknown is never re-entered: once the current_state of a frame has  *)
(* a non-unknown value on an axis, the stable state after every later frame *)
(* the run processes (the value line 184 copies into current_state) has a   *)
(* non-unknown value on that axis.                                          *)
C5_UnknownNeverReentered ==
  \A r \in Runs : \A a \in {1, 2} :
    \A i \in 1..Len(processedPackets[r]) :
      Cur(r, i)[a] # "unknown" =>
        /\ \A j \in i..Len(processedPackets[r]) : Cur(r, j)[a] # "unknown"
        /\ stableState[r][a] # "unknown"

\* the number of frames among the first n whose raw category on an axis
\* (1 compliance, 2 phone) is the given one, under run r's threshold
RawCount(r, n, axis, category) ==
  Cardinality({ k \in 1..n : RawAt(r, k)[axis] = category })

(* C6 - The frame counters measure the raw signal only: at every point of a *)
(* run compliantFrames, nonCompliantFrames and phoneFrames are the numbers  *)
(* of tallied frames whose raw category is compliant, non_compliant and     *)
(* phone, and the returned stats carry these numbers for the whole input:   *)
(* a function of the frames and the threshold alone, whatever the           *)
(* debounceDuration, the stable state and the commits.                      *)
C6_CountersAreRaw ==
  \A r \in Runs :
    /\ compliantFrames[r] = RawCount(r, Counted(r), 1, "compliant")
    /\ nonCompliantFrames[r] = RawCount(r, Counted(r), 1, "non_compliant")
    /\ phoneFrames[r] = RawCount(r, Counted(r), 2, "phone")
    /\ result[r] # Null =>
         /\ result[r][1].stats.compliantFrames = RawCount(r, Len(packets), 1, "compliant")
         /\ result[r][1].stats.nonCompliantFrames =
              RawCount(r, Len(packets), 1, "non_compliant")
         /\ result[r][1].stats.phoneFrames = RawCount(r, Len(packets), 2, "phone")

\* a returned run in which a compliant raw frame was tallied while the stable
\* state stayed non-compliant
C6_Witness ==
  \E r \in Runs : \E j \in 1..Len(packets) :
    /\ pc[r] = "returned"
    /\ RawAt(r, j)[1] = "compliant"
    /\ result[r][1].packets[j].state_machine.current_state[1] = "non_compliant"
    /\ result[r][1].stats.compliantFrames >= 1

C8_EmptyInput ==
  \A r \in Runs : (Started(r) /\ Len(packets) = 0) =>
    /\ pc[r] = "returned"
    /\ result[r] # Null
    /\ result[r][1].packets = <<>>
    /\ result[r][1].events = <<>>
    /\ result[r][1].stats.totalFrames = 0
    /\ result[r][1].stats.compliantFrames = 0
    /\ result[r][1].stats.nonCompliantFrames = 0
    /\ result[r][1].stats.phoneFrames = 0
    /\ result[r][1].stats.totalCommits = 0

\* a call on the empty list has returned, with non-default parameters
C8_Witness ==
  \E r \in Runs :
    /\ Len(packets) = 0
    /\ pc[r] = "returned"
    /\ phoneThreshold[r] # DEFAULT_PHONE_THRESHOLD
    /\ result[r] # Null

\* the persons of output packet k that are flagged
Flagged(out, k) ==
  { p \in DOMAIN out[k].persons :
      /\ out[k].persons[p].phone_heuristic # Null
      /\ out[k].persons[p].phone_heuristic[1].is_phone_talking }

(* C9 - Threshold monotonicity: for two runs over the same frames with      *)
(* thresholds t1 <= t2, after the same number of tallied frames phoneFrames *)
(* of the first is at most phoneFrames of the second, every person flagged  *)
(* in an output packet of the first is flagged in that packet of the        *)
(* second, and the returned stats.phoneFrames are ordered the same way.     *)
C9_ThresholdMonotone ==
  \A r1 \in Runs, r2 \in Runs :
    phoneThreshold[r1] <= phoneThreshold[r2] =>
      /\ Counted(r1) = Counted(r2) => phoneFrames[r1] <= phoneFrames[r2]
      /\ \A k \in 1..Len(processedPackets[r1]) :
           k <= Len(processedPackets[r2]) =>
             Flagged(processedPackets[r1], k) \subseteq Flagged(processedPackets[r2], k)
      /\ (result[r1] # Null /\ result[r2] # Null) =>
           result[r1][1].stats.phoneFrames <= result[r2][1].stats.phoneFrames

\* two returned runs with one debounceDuration, the higher threshold flagging
\* strictly more frames
C9_Witness ==
  \E r1 \in Runs, r2 \in Runs :
    /\ result[r1] # Null
    /\ result[r2] # Null
    /\ debounceDuration[r1] = debounceDuration[r2]
    /\ phoneThreshold[r1] < phoneThreshold[r2]
    /\ result[r1][1].stats.phoneFrames >= 1
    /\ result[r1][1].stats.phoneFrames < result[r2][1].stats.phoneFrames

(* C10 - Determinism: every call enters its loop from stable (unknown,     *)
(* unknown), no pending state and run-length 0, and two finished calls with *)
(* the same frame sequence, phoneThreshold and debounceDuration ended the   *)
(* same way (both returned or both threw on the same frame) and returned    *)
(* identical stats, event lists and per-frame packets, whatever calls       *)
(* either run made before.                                                  *)
C10_Determinism ==
  /\ \A r \in Runs : (pc[r] = "loop" /\ idx[r] = 1) =>
       /\ stableState[r] = <<"unknown", "unknown">>
       /\ pendingState[r] = Null
       /\ pendingFrameCount[r] = 0
  /\ \A r1 \in Runs, r2 \in Runs :
    ( /\ Finished(r1)
      /\ Finished(r2)
      /\ phoneThreshold[r1] = phoneThreshold[r2]
      /\ debounceDuration[r1] = debounceDuration[r2] ) =>
        /\ pc[r1] = pc[r2]
        /\ idx[r1] = idx[r2]
        /\ result[r1] = result[r2]
        /\ processedPackets[r1] = processedPackets[r2]
        /\ events[r1] = events[r2]

\* two distinct runs have returned results for the same arguments over three
\* frames, with a pending state reported in one of them
C10_Witness ==
  /\ pc[1] = "returned"
  /\ pc[2] = "returned"
  /\ phoneThreshold[1] = phoneThreshold[2]
  /\ debounceDuration[1] = debounceDuration[2]
  /\ Len(packets) = 3
  /\ result[1][1].packets[3].state_machine.pending_state # Null
  /\ result[1] = result[2]

----------------------------------------------------------------------------
(* C11 *)

\* the output packets a finished call handed back: the list returned by run r
\* (empty while it has returned nothing)
Returned(r) == IF result[r] = Null THEN <<>> ELSE result[r][1].packets

\* the list returned by the last recomputeWithThreshold call
Recomputed == IF recomputed = Null THEN <<>> ELSE recomputed[1].packets

\* output packet k has the persons of input packet k, with rail_hit_test and
\* min_distance as in the input
PassedThrough(out, k) ==
  /\ DOMAIN out[k].persons = DOMAIN packets[k].persons
  /\ \A j \in DOMAIN packets[k].persons :
        /\ out[k].persons[j].rail_hit_test = packets[k].persons[j].rail_hit_test
        /\ (out[k].persons[j].phone_heuristic = Null)
             <=> (packets[k].persons[j].phone_heuristic = Null)
        /\ packets[k].persons[j].phone_heuristic # Null =>
             out[k].persons[j].phone_heuristic[1].min_distance
               = packets[k].persons[j].phone_heuristic[1].min_distance

\* the flag of person j of output packet k differs from the input's
Reflagged(out, k, j) ==
  /\ packets[k].persons[j].phone_heuristic # Null
  /\ out[k].persons[j].phone_heuristic[1].is_phone_talking
       # packets[k].persons[j].phone_heuristic[1].is_phone_talking

\* C11: the input is never mutated.  No step of simulateDebounce or of
\* recomputeWithThreshold changes the input list (packets, metrics, persons,
\* their phone_heuristic), and in every output pushed or returned each
\* person's rail_hit_test and min_distance equal the input's.
C11_InputNeverMutated ==
  /\ [][packets' = packets]_vars
  /\ [](/\ \A k \in DOMAIN processedPackets[1] : PassedThrough(processedPackets[1], k)
        /\ \A k \in DOMAIN Returned(1) : PassedThrough(Returned(1), k)
        /\ \A k \in DOMAIN Recomputed : PassedThrough(Recomputed, k))

\* both functions have returned an output in which some person's flag differs
\* from the input's flag
C11_Witness ==
  /\ \E k \in DOMAIN Returned(1) : \E j \in DOMAIN packets[k].persons :
        Reflagged(Returned(1), k, j)
  /\ \E k \in DOMAIN Recomputed : \E j \in DOMAIN packets[k].persons :
        Reflagged(Recomputed, k, j)

----------------------------------------------------------------------------
(* C12 *)

\* The run alone: simulateDebounce(packets, t, d) executed from its
\* initialisers over the first n frames with nothing else running, as a fold.
SoloStart ==
  [stable |-> <<"unknown", "unknown">>, pending |-> Null, count |-> 0,
   compliantFrames |-> 0, nonCompliantFrames |-> 0, phoneFrames |-> 0,
   out |-> <<>>, threw |-> FALSE]

SoloFrame(s, packet, t, d) ==
  LET raw == rawState(packet, t)
      tallied == [s EXCEPT
                    !.compliantFrames = IF raw[1] = "compliant" THEN @ + 1 ELSE @,
                    !.nonCompliantFrames = IF raw[1] = "non_compliant" THEN @ + 1 ELSE @,
                    !.phoneFrames = IF raw[2] = "phone" THEN @ + 1 ELSE @]
      Pushed(stable, pending, count) ==
        [tallied EXCEPT !.stable = stable, !.pending = pending, !.count = count,
                        !.out = Append(@, OutputPacket(packet, t, d, stable, pending, count))]
  IN  IF s.threw THEN s
      ELSE IF IsCold(s.stable)
        THEN Pushed(coldStartState(s.stable, raw), s.pending, s.count)
      ELSE IF ~Differs(raw, s.stable) THEN Pushed(s.stable, Null, 0)
      ELSE IF ~SameAsPending(s.pending, raw) THEN Pushed(s.stable, raw, 1)
      ELSE IF ~commitReached(s.count + 1, d) THEN Pushed(s.stable, s.pending, s.count + 1)
      ELSE [tallied EXCEPT !.stable = raw, !.pending = Null, !.count = 0, !.threw = TRUE]

RECURSIVE Solo(_, _, _)
Solo(n, t, d) ==
  IF n = 0 THEN SoloStart ELSE SoloFrame(Solo(n - 1, t, d), packets[n], t, d)

\* the frames run r has consumed (the frame that threw included)
Consumed(r) == IF pc[r] = "threw" THEN idx[r] ELSE idx[r] - 1

\* run r is where the run alone is after the same number of frames
AsAlone(r) ==
  LET s == Solo(Consumed(r), phoneThreshold[r], debounceDuration[r])
  IN  /\ stableState[r] = s.stable
      /\ pendingState[r] = s.pending
      /\ pendingFrameCount[r] = s.count
      /\ compliantFrames[r] = s.compliantFrames
      /\ nonCompliantFrames[r] = s.nonCompliantFrames
      /\ phoneFrames[r] = s.phoneFrames
      /\ processedPackets[r] = s.out
      /\ events[r] = <<>>
      /\ (pc[r] = "threw") <=> s.threw
      /\ pc[r] = "returned" =>
            result[r] = Some([packets |-> s.out, events |-> <<>>,
                              stats |-> [totalFrames |-> Len(packets),
                                         compliantFrames |-> s.compliantFrames,
                                         nonCompliantFrames |-> s.nonCompliantFrames,
                                         phoneFrames |-> s.phoneFrames,
                                         totalCommits |-> 0]])

\* C12: runs do not interfere.  With a baseline run and a tuned run over the
\* same input interleaved frame by frame in any order, each run's accumulator
\* (stableState, pendingState, pendingFrameCount, counters, events), its
\* output and its result are at every point those of the run executed alone
\* over the frames it has consumed.
C12_RunsDoNotInterfere == \A r \in Runs : Started(r) => AsAlone(r)

\* both runs are in the middle of the list at different frames, with different
\* parameters and different pending counters
C12_Witness ==
  /\ pc[1] = "loop" /\ pc[2] = "loop"
  /\ idx[1] = 2 /\ idx[2] = 4
  /\ phoneThreshold[1] # phoneThreshold[2]
  /\ debounceDuration[1] # debounceDuration[2]
  /\ pendingFrameCount[1] = 0 /\ pendingFrameCount[2] = 2

----------------------------------------------------------------------------
(* C13 *)

\* person j of output packet k has a phone flag and it is set
FlagSet(out, k, j) ==
  /\ out[k].persons[j].phone_heuristic # Null
  /\ out[k].persons[j].phone_heuristic[1].is_phone_talking

\* output packet k is flagged for threshold t: every person with a phone
\* heuristic has is_phone_talking = (min_distance < t) and threshold = t, and
\* phone_count is the number of persons flagged
FlaggedFor(out, k, t) ==
  /\ \A j \in DOMAIN out[k].persons :
        out[k].persons[j].phone_heuristic # Null =>
          /\ out[k].persons[j].phone_heuristic[1].is_phone_talking
               <=> (packets[k].persons[j].phone_heuristic[1].min_distance < t)
          /\ out[k].persons[j].phone_heuristic[1].threshold = t
  /\ out[k].metrics.phone_count =
       Cardinality({j \in DOMAIN out[k].persons : FlagSet(out, k, j)})

\* C13: per-person phone flag.  In every packet simulateDebounce pushes or
\* returns and in every packet recomputeWithThreshold returns, each person's
\* is_phone_talking is true exactly when min_distance < phoneThreshold
\* (strictly), its threshold field is the supplied phoneThreshold, and
\* metrics.phone_count is the number of persons flagged in the frame.
C13_PerPersonPhoneFlag ==
  /\ \A k \in DOMAIN processedPackets[1] :
        FlaggedFor(processedPackets[1], k, phoneThreshold[1])
  /\ \A k \in DOMAIN Returned(1) : FlaggedFor(Returned(1), k, phoneThreshold[1])
  /\ \A k \in DOMAIN Recomputed :
        FlaggedFor(Recomputed, k, recomputed[1].phoneThreshold)

\* a person whose distance equals the threshold (0.05) is returned unflagged
\* by simulateDebounce called with 0.05, and flagged, in a frame with
\* phone_count 1, by recomputeWithThreshold called with 0.06
C13_Witness ==
  /\ phoneThreshold[1] = 5
  /\ recomputed # Null
  /\ recomputed[1].phoneThreshold = 6
  /\ \E k \in DOMAIN Returned(1) : \E j \in DOMAIN packets[k].persons :
        /\ packets[k].persons[j].phone_heuristic # Null
        /\ packets[k].persons[j].phone_heuristic[1].min_distance = 5
        /\ ~FlagSet(Returned(1), k, j)
        /\ Returned(1)[k].metrics.phone_count = 0
        /\ FlagSet(Recomputed, k, j)
        /\ Recomputed[k].metrics.phone_count = 1

----------------------------------------------------------------------------
(* C14 *)

\* some person of the frame has rail contact
HasRailContact(packet) ==
  \E j \in DOMAIN packet.persons :
     /\ packet.persons[j].rail_hit_test # Null
     /\ packet.persons[j].rail_hit_test[1].any_hit

\* the derivation with "zero persons" read as an empty persons list
ComplianceByList(packet) ==
  IF Len(packet.persons) = 0 THEN "unknown"
  ELSE IF HasRailContact(packet) THEN "compliant" ELSE "non_compliant"

\* the derivation with "zero persons" read as the aggregate total_persons = 0
ComplianceByCount(packet) ==
  IF packet.metrics.total_persons = 0 THEN "unknown"
  ELSE IF HasRailContact(packet) THEN "compliant" ELSE "non_compliant"

\* the frames among the first n with the given compliance under derivation D
FramesWith(D(_), n, category) ==
  Cardinality({k \in 1..n : D(packets[k]) = category})

\* C14 as stated: rawCompliance is Unknown exactly when the persons list is
\* empty, otherwise Compliant when at least one person has rail contact and
\* NonCompliant when none has.  Observed on the counters, which tally the raw
\* compliance of every frame (unknown frames in neither).
C14_RawComplianceByList ==
  Started(1) =>
    /\ compliantFrames[1] = FramesWith(ComplianceByList, Counted(1), "compliant")
    /\ nonCompliantFrames[1] = FramesWith(ComplianceByList, Counted(1), "non_compliant")

\* C14 amended: rawCompliance is Unknown exactly when metrics.total_persons is
\* 0, whatever the persons list holds; otherwise it is Compliant when at least
\* one person of the list has rail contact (any-hit) and NonCompliant when
\* none has, an empty list included.
C14_RawComplianceByCount ==
  Started(1) =>
    /\ compliantFrames[1] = FramesWith(ComplianceByCount, Counted(1), "compliant")
    /\ nonCompliantFrames[1] = FramesWith(ComplianceByCount, Counted(1), "non_compliant")

\* tallied: a frame counted 0 that lists a person on the rail, a frame counted
\* 1 that lists nobody, and a frame where one of two persons holds the rail
C14_Witness ==
  /\ Counted(1) = 3
  /\ \E k \in 1..3 : /\ packets[k].metrics.total_persons = 0
                      /\ HasRailContact(packets[k])
  /\ \E k \in 1..3 : /\ packets[k].metrics.total_persons = 1
                      /\ Len(packets[k].persons) = 0
  /\ \E k \in 1..3 : /\ Len(packets[k].persons) = 2
                      /\ HasRailContact(packets[k])
  /\ compliantFrames[1] = 1
  /\ nonCompliantFrames[1] = 1

----------------------------------------------------------------------------
(* C15 *)

EventTypes == {"compliant_start", "non_compliant_start", "phone_detected", "phone_ended"}

\* C15: event labelling.  For old_state # new_state as a commit passes them:
\* when the compliance axis differs the label is compliant_start for new
\* compliance compliant and non_compliant_start for new compliance
\* non_compliant, whether or not the phone axis changed too; when only the
\* phone axis differs it is phone_detected for new phone value phone and
\* phone_ended for no_phone; no other label is produced.
C15_EventLabelling ==
  labelled # Null =>
    LET o == labelled[1].old_state
        n == labelled[1].new_state
        e == labelled[1].event_type
    IN  /\ (o[1] # n[1] /\ n[1] = "compliant") => e = "compliant_start"
        /\ (o[1] # n[1] /\ n[1] = "non_compliant") => e = "non_compliant_start"
        /\ (o[1] = n[1] /\ o[2] # n[2] /\ n[2] = "phone") => e = "phone_detected"
        /\ (o[1] = n[1] /\ o[2] # n[2] /\ n[2] = "no_phone") => e = "phone_ended"
        /\ e \in EventTypes

\* labelled: a change on both axes at once, to non_compliant with no phone
C15_Witness ==
  /\ labelled # Null
  /\ labelled[1].old_state = <<"compliant", "phone">>
  /\ labelled[1].new_state = <<"non_compliant", "no_phone">>
  /\ labelled[1].event_type = "non_compliant_start"

----------------------------------------------------------------------------
(* C16 *)

\* the commit branch has run on the current frame of run r (lines 151-154 have
\* assigned the new stable state)
CommittedOn(r) == pc[r] = "threw"

\* C16: the events list is chronological and append-only.  The events carry
\* frame_number values in strictly increasing order, each event the
\* frame_number and timestamp_sec of one consumed frame, and the frame on
\* which a commit has happened is the frame of the last event of the list.
C16_EventsChronological ==
  Started(1) =>
    /\ \A i \in DOMAIN events[1] : \A j \in DOMAIN events[1] :
          i < j => events[1][i].frame_number < events[1][j].frame_number
    /\ \A i \in DOMAIN events[1] : \E k \in 1..Consumed(1) :
          /\ events[1][i].frame_number = packets[k].frame_number
          /\ events[1][i].timestamp_sec = packets[k].timestamp_sec
    /\ CommittedOn(1) =>
          /\ Len(events[1]) > 0
          /\ events[1][Len(events[1])].frame_number = Packet(1).frame_number
          /\ events[1][Len(events[1])].timestamp_sec = Packet(1).timestamp_sec

----------------------------------------------------------------------------
(* C17 *)

\* C17: compareParameters(baseline, tuned) returns delta.phoneFramesChange =
\* tuned.phoneFrames - baseline.phoneFrames and delta.eventsChange =
\* tuned.totalCommits - baseline.totalCommits, returns the two stats objects
\* unchanged under baseline.stats and tuned.stats, and accepts stats whose
\* totalFrames differ like any other.
C17_CompareParameters ==
  /\ comparison # Null =>
        LET a == comparison[1].baselineStats
            b == comparison[1].tunedStats
            c == comparison[1].returned
        IN  /\ c.delta.phoneFramesChange = b.phoneFrames - a.phoneFrames
            /\ c.delta.eventsChange = b.totalCommits - a.totalCommits
            /\ c.baseline.stats = a
            /\ c.tuned.stats = b
  /\ comparison = Null =>
        \A a \in StatsSet, b \in StatsSet :
           a.totalFrames # b.totalFrames => ENABLED Compare(a, b)

\* returned: the comparison of a one-frame baseline with a two-frame tuned run
C17_Witness ==
  /\ comparison # Null
  /\ comparison[1].baselineStats.totalFrames = 1
  /\ comparison[1].tunedStats.totalFrames = 2
  /\ comparison[1].returned.delta.phoneFramesChange = -1
  /\ comparison[1].returned.delta.eventsChange = 2

----------------------------------------------------------------------------
(* C18 *)

\* C18: comparison antisymmetry.  For all stats A and B, each delta of
\* compareParameters(A, B) is the negation of the same delta of
\* compareParameters(B, A); compareParameters(A, A) has both deltas 0.
C18_Antisymmetry ==
  comparison # Null =>
    LET a == comparison[1].baselineStats
        b == comparison[1].tunedStats
        ab == comparison[1].returned.delta
        ba == compareParameters(b, a).delta
    IN  /\ ab.phoneFramesChange = -ba.phoneFramesChange
        /\ ab.eventsChange = -ba.eventsChange
        /\ a = b => (ab.phoneFramesChange = 0 /\ ab.eventsChange = 0)

\* returned: a comparison with one positive and one negative delta
C18_Witness ==
  /\ comparison # Null
  /\ comparison[1].baselineStats # comparison[1].tunedStats
  /\ comparison[1].returned.delta.phoneFramesChange = 2
  /\ comparison[1].returned.delta.eventsChange = -1

----------------------------------------------------------------------------
(* C19 *)

\* output packet k of run r carries frame k's frame_number and timestamp_sec
\* and the machine's state after frame k was processed
BlockAfterFrame(r, out, k) ==
  LET s == Solo(k, phoneThreshold[r], debounceDuration[r])
  IN  /\ out[k].frame_number = packets[k].frame_number
      /\ out[k].timestamp_sec = packets[k].timestamp_sec
      /\ out[k].state_machine.current_state = s.stable
      /\ out[k].state_machine.pending_state = s.pending
      /\ out[k].state_machine.time_in_pending = s.count * 100
      /\ out[k].state_machine.debounce_threshold = debounceDuration[r]

\* the part of C19 about the packets there are: each is the packet of its
\* frame
OutputBlocks(r) ==
  /\ \A k \in DOMAIN processedPackets[r] : BlockAfterFrame(r, processedPackets[r], k)
  /\ \A k \in DOMAIN Returned(r) : BlockAfterFrame(r, Returned(r), k)

\* C19: per-frame output.  There is exactly one output packet per consumed
\* input frame, in input order, with the input's frame_number and
\* timestamp_sec and a state_machine block holding the machine's state after
\* that frame (current_state, pending_state, time_in_pending =
\* pendingFrameCount / 24, debounce_threshold = debounceDuration), and a call
\* that has ended has returned one packet per input frame.
C19_PerFrameOutput ==
  Started(1) =>
    /\ Len(processedPackets[1]) = Consumed(1)
    /\ OutputBlocks(1)
    /\ Finished(1) =>
          /\ result[1] # Null
          /\ Len(Returned(1)) = Len(packets)

----------------------------------------------------------------------------
(* C20 *)

\* with minFrames <= 0, frame b + 1 is a single-frame flicker: the stable
\* state S is established at frame b, frame b + 1 has a raw state R # S and
\* frame b + 2 has raw state S again
Flicker(r, b) ==
  /\ minFrames(debounceDuration[r]) <= 0
  /\ Established(r, b)
  /\ b + 2 <= Len(packets)
  /\ RawAt(r, b + 1) # Cur(r, b)
  /\ RawAt(r, b + 2) = Cur(r, b)

\* C20 as stated: with minFrames <= 0 every single-frame flicker is
\* committed; once the run is past the flicker there is an event S -> R with
\* the frame_number of the flicker frame.
C20_FlickerCommitted ==
  \A b \in 1..Len(packets) :
    (Flicker(1, b) /\ Counted(1) >= b + 2) =>
      \E e \in DOMAIN events[1] :
         /\ events[1][e].frame_number = packets[b + 1].frame_number
         /\ events[1][e].old_state = Cur(1, b)
         /\ events[1][e].new_state = RawAt(1, b + 1)

\* C20 amended: with minFrames <= 0 a single-frame flicker is not committed.
\* The flicker frame makes R the pending candidate with run-length 1 and
\* leaves the stable state S, the next frame clears the candidate; neither
\* frame emits an event or ends the call.
C20_FlickerPending ==
  \A b \in 1..Len(packets) :
    Flicker(1, b) =>
      /\ ~(pc[1] = "threw" /\ idx[1] \in (b + 1)..(b + 2))
      /\ EventsOn(events[1], b + 1, b + 2) = {}
      /\ b + 1 <= Len(processedPackets[1]) =>
            /\ Cur(1, b + 1) = Cur(1, b)
            /\ processedPackets[1][b + 1].state_machine.pending_state = RawAt(1, b + 1)
            /\ processedPackets[1][b + 1].state_machine.time_in_pending = 100
      /\ b + 2 <= Len(processedPackets[1]) =>
            /\ Cur(1, b + 2) = Cur(1, b)
            /\ processedPackets[1][b + 2].state_machine.pending_state = Null
            /\ processedPackets[1][b + 2].state_machine.time_in_pending = 0
      /\ result[1] # Null =>
            /\ EventsOn(result[1][1].events, b + 1, b + 2) = {}
            /\ Returned(1)[b + 1].state_machine.current_state = Cur(1, b)
            /\ Returned(1)[b + 2].state_machine.current_state = Cur(1, b)

\* a call with debounceDuration 0 has returned after a single-frame flicker
C20_Witness ==
  /\ debounceDuration[1] = 0
  /\ pc[1] = "returned"
  /\ \E b \in 1..Len(packets) : Flicker(1, b)

----------------------------------------------------------------------------
(* C21 *)

\* the first frame of the run of equal raw states that ends at frame j
RunStart(r, j) ==
  CHOOSE b \in 1..j :
    /\ \A k \in b..j : RawAt(r, k) = RawAt(r, j)
    /\ b > 1 => RawAt(r, b - 1) # RawAt(r, j)

\* the time from frame b to frame j by their timestamps, and a duration of d
\* hundredths of a second, both in units of 1 / (100 * fps) s
Elapsed(b, j) == packets[j].timestamp_sec - packets[b].timestamp_sec

Ticks(d) == d * fps

\* C21: a state is committed only after it has persisted for the debounce
\* duration.  On the frame of a commit, the frame's timestamp minus the
\* timestamp of the first frame of the committed candidate's run is at least
\* debounceDuration (the wall-clock rule timestamp - pending_since >=
\* debounceDuration).
C21_CommitAfterDuration ==
  CommittedOn(1) =>
    Elapsed(RunStart(1, idx[1]), idx[1]) >= Ticks(debounceDuration[1])

----------------------------------------------------------------------------
(* C22 *)

\* the stable state after frame j, for a frame the run has consumed: the one
\* the frame's output packet shows, or, on the frame that threw, the one
\* lines 151-154 assigned
StableAfter(r, j) ==
  IF j <= Len(processedPackets[r]) THEN Cur(r, j) ELSE stableState[r]

\* frames b+1..j are minFrames frames whose raw phone category is one value
\* that differs from the stable phone category after frame b, past the cold
\* start
PhoneRun(r, b, j) ==
  /\ b \in 1..Len(processedPackets[r])
  /\ ~IsCold(Cur(r, b))
  /\ minFrames(debounceDuration[r]) >= 1
  /\ j = b + minFrames(debounceDuration[r])
  /\ j <= Consumed(r)
  /\ \A k \in (b + 1)..j : RawAt(r, k)[2] = RawAt(r, j)[2]
  /\ RawAt(r, j)[2] # Cur(r, b)[2]

\* C22: the phone axis is debounced on its own.  When the raw phone category
\* differs from the stable phone category and stays at one value for minFrames
\* consecutive frames after the cold start, the stable phone category is that
\* value after the last of those frames, whatever the raw compliance category
\* does during them.
C22_PhoneAxisOnItsOwn ==
  \A b \in 1..Len(packets), j \in 1..Len(packets) :
    PhoneRun(1, b, j) => StableAfter(1, j)[2] = RawAt(1, j)[2]

----------------------------------------------------------------------------
(* C23 *)

\* the commits run r has made when it has ended: the events it pushed, and
\* the commit on which it threw
CommitsMade(r) == Len(events[r]) + (IF pc[r] = "threw" THEN 1 ELSE 0)

----------------------------------------------------------------------------
(* C24 *)

\* the state_machine block of output packet k of run r
Block(r, k) == processedPackets[r][k].state_machine

\* the pending part of output frame k follows from output frame k - 1 and the
\* raw state of frame k as the claim says
PendingFollows(r, k) ==
  LET prev == Block(r, k - 1)
      cur == Block(r, k)
      raw == RawAt(r, k)
  IN  ~IsCold(prev.current_state) =>
        /\ raw = prev.current_state =>
              (cur.pending_state = Null /\ cur.time_in_pending = 0)
        /\ (raw # prev.current_state /\ raw # prev.pending_state) =>
              (cur.pending_state = raw /\ cur.time_in_pending = 100)
        /\ (raw # prev.current_state /\ raw = prev.pending_state) =>
              (cur.pending_state = raw
                 /\ cur.time_in_pending = prev.time_in_pending + 100)

\* the run-length a commit needs, for minFrames >= 1
NeededRun(r) == minFrames(debounceDuration[r])

\* frames b+1..j all differ from the stable state established at b, and no
\* NeededRun consecutive frames among them have one raw state
ShortRuns(r, b, j) ==
  /\ Established(r, b)
  /\ NeededRun(r) >= 1
  /\ j \in (b + 2)..Len(packets)
  /\ \A k \in (b + 1)..j : RawAt(r, k) # Cur(r, b)
  /\ \A k \in (b + 1)..j :
        (k + NeededRun(r) - 1 <= j) =>
          \E m \in k..(k + NeededRun(r) - 1) : RawAt(r, m) # RawAt(r, k)

\* C24: the run-length counts consecutive frames of one candidate only.  A
\* frame whose raw state equals the stable state clears the candidate and puts
\* the run-length to 0; a frame with another non-stable raw state replaces
\* the candidate and restarts the run-length at 1.  Hence on the frame of a
\* commit to R (minFrames >= 1) the raw state is R on each of the minFrames
\* consecutive frames ending there, and frames that alternate between
\* non-stable candidates in runs shorter than minFrames commit nothing.
C24_RunLengthOfOneCandidate ==
  Started(1) =>
    /\ \A k \in 2..Len(processedPackets[1]) : PendingFollows(1, k)
    /\ (CommittedOn(1) /\ NeededRun(1) >= 1) =>
          /\ idx[1] - NeededRun(1) >= 1
          /\ \A k \in (idx[1] - NeededRun(1) + 1)..idx[1] : RawAt(1, k) = stableState[1]
    /\ \A b \in 1..Len(packets), j \in 1..Len(packets) :
          ShortRuns(1, b, j) =>
            /\ ~(pc[1] = "threw" /\ idx[1] \in (b + 1)..j)
            /\ EventsOn(events[1], b + 1, j) = {}
            /\ \A k \in (b + 1)..j :
                  k <= Len(processedPackets[1]) => Cur(1, k) = Cur(1, b)

\* a returned run in which, after the stable state was established, three
\* frames alternated between two other raw states, with minFrames = 2
C24_Witness ==
  /\ pc[1] = "returned"
  /\ NeededRun(1) = 2
  /\ ShortRuns(1, 1, 4)
  /\ RawAt(1, 2) = RawAt(1, 4)
  /\ Block(1, 3).time_in_pending = 100
  /\ Block(1, 4).pending_state = RawAt(1, 4)

----------------------------------------------------------------------------
(* C25 *)

\* the current_state before frame k of an output list: that of frame k - 1,
\* or the initial (unknown, unknown)
Before(out, k) ==
  IF k = 1 THEN <<"unknown", "unknown">> ELSE out[k - 1].state_machine.current_state

\* frame k of an output list is the cold-start frame
ColdStartFrame(r, out, k) ==
  /\ IsCold(Before(out, k))
  /\ RawAt(r, k)[1] # "unknown"
  /\ out[k].state_machine.current_state = RawAt(r, k)

\* an event of the list is on frame k, from the state before it to its state
CommitEventOn(evs, out, k) ==
  \E e \in DOMAIN evs :
     /\ evs[e].frame_number = out[k].frame_number
     /\ evs[e].old_state = Before(out, k)
     /\ evs[e].new_state = out[k].state_machine.current_state

\* the frames of an output list on which current_state changed
Changes(out) ==
  {k \in DOMAIN out : out[k].state_machine.current_state # Before(out, k)}

\* C25: the stable state changes only by cold-start adoption or by a commit.
\* The current_state of an output frame differs from that of the frame before
\* only if the frame is the cold-start frame or an event from the earlier to
\* the later state is emitted on it; in a returned result the number of
\* changes of current_state is totalCommits, plus one if the cold start
\* occurred.
C25_StableChangesOnlyByCommit ==
  Started(1) =>
    /\ \A k \in Changes(processedPackets[1]) :
          \/ ColdStartFrame(1, processedPackets[1], k)
          \/ CommitEventOn(events[1], processedPackets[1], k)
    /\ result[1] # Null =>
          /\ \A k \in Changes(Returned(1)) :
                \/ ColdStartFrame(1, Returned(1), k)
                \/ CommitEventOn(result[1][1].events, Returned(1), k)
          /\ Cardinality(Changes(Returned(1))) =
               result[1][1].stats.totalCommits
                 + (IF \E k \in DOMAIN Returned(1) : ColdStartFrame(1, Returned(1), k)
                    THEN 1 ELSE 0)

\* a returned run whose cold start came on its second frame and which later
\* held a candidate that did not commit: one change of current_state
C25_Witness ==
  /\ pc[1] = "returned"
  /\ Changes(Returned(1)) = {2}
  /\ \E k \in 3..Len(Returned(1)) : Returned(1)[k].state_machine.pending_state # Null

----------------------------------------------------------------------------
(* C26 *)

\* the same frames in the same list order with the timestamps of a regular
\* 24 fps recording
Regular(pkts) ==
  [k \in DOMAIN pkts |-> [pkts[k] EXCEPT !.timestamp_sec = (k - 1) * 100]]

\* simulateDebounce(pkts, t, d) alone over the first n frames of a list
RECURSIVE SoloOver(_, _, _, _)
SoloOver(pkts, n, t, d) ==
  IF n = 0 THEN SoloStart ELSE SoloFrame(SoloOver(pkts, n - 1, t, d), pkts[n], t, d)

\* some frame of the list is earlier than the frame before it
OutOfOrder == \E k \in 2..Len(packets) : packets[k].timestamp_sec < packets[k - 1].timestamp_sec

\* C26: out-of-order frames are not detected.  Whatever the timestamp_sec
\* values, the run processes the frames in list order: its stable state,
\* candidate, run-length, counters, events, output blocks and stats are those
\* of the run over the same list with regular timestamps, it ends by an error
\* only where that run does, and each output packet carries its input
\* frame's timestamp_sec.
C26_OutOfOrderNotDetected ==
  Started(1) =>
    LET s == SoloOver(Regular(packets), Consumed(1), phoneThreshold[1], debounceDuration[1])
    IN  /\ stableState[1] = s.stable
        /\ pendingState[1] = s.pending
        /\ pendingFrameCount[1] = s.count
        /\ compliantFrames[1] = s.compliantFrames
        /\ nonCompliantFrames[1] = s.nonCompliantFrames
        /\ phoneFrames[1] = s.phoneFrames
        /\ events[1] = <<>>
        /\ (pc[1] = "threw") <=> s.threw
        /\ Len(processedPackets[1]) = Len(s.out)
        /\ \A k \in DOMAIN processedPackets[1] :
              /\ Block(1, k) = s.out[k].state_machine
              /\ processedPackets[1][k].timestamp_sec = packets[k].timestamp_sec
        /\ pc[1] = "returned" =>
              /\ result[1] # Null
              /\ result[1][1].events = <<>>
              /\ result[1][1].stats =
                   [totalFrames |-> Len(packets),
                    compliantFrames |-> s.compliantFrames,
                    nonCompliantFrames |-> s.nonCompliantFrames,
                    phoneFrames |-> s.phoneFrames,
                    totalCommits |-> 0]
              /\ \A k \in DOMAIN Returned(1) :
                    /\ Returned(1)[k].state_machine = s.out[k].state_machine
                    /\ Returned(1)[k].timestamp_sec = packets[k].timestamp_sec

\* a run has returned over three frames the first of which is later than the
\* other two, having held a candidate on the way
C26_Witness ==
  /\ pc[1] = "returned"
  /\ Len(packets) = 3
  /\ packets[1].timestamp_sec = 100
  /\ packets[2].timestamp_sec = 0
  /\ OutOfOrder
  /\ Returned(1)[1].timestamp_sec = 100
  /\ \E k \in DOMAIN Returned(1) : Returned(1)[k].state_machine.pending_state # Null

----------------------------------------------------------------------------
(* C27 *)

\* the larger of two numbers
Max(a, b) == IF a >= b THEN a ELSE b

\* a stable state, a candidate and a run-length that are well-formed for
\* minFrames = m
WellFormedPending(stable, pending, count, m) ==
  /\ (pending = Null) <=> (count = 0)
  /\ pending # Null =>
        /\ pending # stable
        /\ 1 <= count
        /\ count <= Max(1, m - 1)
  /\ m >= 2 => count < m
  /\ IsCold(stable) => pending = Null

\* C27: pending well-formedness after every frame (minFrames >= 1).  The
\* candidate is absent exactly when the run-length is 0; when present it
\* differs from the stable state and the run-length is between 1 and
\* max(1, minFrames - 1), so time_in_pending stays below minFrames / fps when
\* minFrames >= 2; while the stable state is (unknown, unknown) there is no
\* candidate.
C27_PendingWellFormed ==
  (Started(1) /\ minFrames(debounceDuration[1]) >= 1) =>
    /\ WellFormedPending(stableState[1], pendingState[1], pendingFrameCount[1],
                         minFrames(debounceDuration[1]))
    /\ \A k \in DOMAIN processedPackets[1] :
          /\ WellFormedPending(Block(1, k).current_state, Block(1, k).pending_state,
                               Block(1, k).time_in_pending \div 100,
                               minFrames(debounceDuration[1]))
          /\ Block(1, k).time_in_pending = 100 * (Block(1, k).time_in_pending \div 100)

\* with minFrames = 3 an output frame reports a candidate in its second frame
C27_Witness ==
  /\ minFrames(debounceDuration[1]) = 3
  /\ \E k \in DOMAIN processedPackets[1] :
        /\ Block(1, k).pending_state # Null
        /\ Block(1, k).time_in_pending = 200

----------------------------------------------------------------------------
(* C28 *)

\* the cold start has occurred among the frames run r has consumed
ColdStartOccurred(r) == \E k \in 1..Consumed(r) : RawAt(r, k)[1] # "unknown"

\* the state adopted at cold start: the raw state of the first frame whose
\* raw compliance is not unknown
AdoptedState(r) ==
  RawAt(r, CHOOSE k \in 1..Consumed(r) :
             /\ RawAt(r, k)[1] # "unknown"
             /\ \A m \in 1..(k - 1) : RawAt(r, m)[1] = "unknown")

\* C28: events form a chain.  Every event has old_state # new_state and a
\* label other than state_change; the events lead from the state adopted at
\* cold start to the current stable state: the first event's old_state is the
\* adopted state, each later event's old_state is the previous event's
\* new_state, and the last event's new_state is the stable state (with no
\* event, the stable state is the adopted state).
C28_EventsFormChain ==
  (Started(1) /\ ColdStartOccurred(1)) =>
    LET evs == events[1]
    IN  /\ \A e \in DOMAIN evs :
              /\ evs[e].old_state # evs[e].new_state
              /\ evs[e].event_type # "state_change"
        /\ \A e \in 2..Len(evs) : evs[e].old_state = evs[e - 1].new_state
        /\ IF evs = <<>>
           THEN stableState[1] = AdoptedState(1)
           ELSE /\ evs[1].old_state = AdoptedState(1)
                /\ evs[Len(evs)].new_state = stableState[1]

----------------------------------------------------------------------------
(* C29 *)

\* after the prefix of b frames, frames b+1..j are minFrames frames of one raw
\* state with known compliance, and the run is past them or has ended
SteadyRun(r, b, j) ==
  /\ minFrames(debounceDuration[r]) >= 1
  /\ j = b + minFrames(debounceDuration[r])
  /\ j <= Len(packets)
  /\ \A k \in (b + 1)..j : RawAt(r, k) = RawAt(r, j)
  /\ RawAt(r, j)[1] # "unknown"
  /\ Len(processedPackets[r]) >= b
  /\ (Consumed(r) >= j \/ pc[r] = "threw")

\* C29: bounded response from any reachable machine state.  After any prefix
\* of frames, when the next minFrames frames (minFrames >= 1) all have one raw
\* state R with known compliance, the output packet of the last of them
\* exists and has current_state R.
C29_BoundedResponse ==
  \A b \in 0..Len(packets), j \in 1..Len(packets) :
    SteadyRun(1, b, j) =>
      /\ j <= Len(processedPackets[1])
      /\ Cur(1, j) = RawAt(1, j)

----------------------------------------------------------------------------
(* C30 *)

\* packet k of a simulateDebounce output has the persons and the phone_count
\* of packet k of the recomputeWithThreshold output, and a person without a
\* phone heuristic has none in either
SameRawPart(out, k) ==
  /\ out[k].persons = Recomputed[k].persons
  /\ out[k].metrics.phone_count = Recomputed[k].metrics.phone_count
  /\ \A j \in DOMAIN packets[k].persons :
        packets[k].persons[j].phone_heuristic = Null =>
          /\ out[k].persons[j].phone_heuristic = Null
          /\ Recomputed[k].persons[j].phone_heuristic = Null
          /\ ~FlagSet(out, k, j)
          /\ ~FlagSet(Recomputed, k, j)

\* C30: simulateDebounce and recomputeWithThreshold agree on the raw-signal
\* part.  For the same frames and phoneThreshold and any debounceDuration, the
\* i-th packet simulateDebounce pushes or returns has the same persons
\* (is_phone_talking, threshold, rail_hit_test) and the same
\* metrics.phone_count as the i-th packet recomputeWithThreshold returns; a
\* person whose phone_heuristic is null is not flagged and keeps null in both.
C30_SameRawSignal ==
  (recomputed # Null /\ recomputed[1].phoneThreshold = phoneThreshold[1]) =>
    /\ \A k \in DOMAIN processedPackets[1] : SameRawPart(processedPackets[1], k)
    /\ \A k \in DOMAIN Returned(1) : SameRawPart(Returned(1), k)
    /\ result[1] # Null => Len(Returned(1)) = Len(Recomputed)

\* both functions have returned for threshold 0.06 over frames holding a
\* person whose flag the threshold changes and a person without phone
\* heuristic
C30_Witness ==
  /\ recomputed # Null
  /\ recomputed[1].phoneThreshold = 6
  /\ phoneThreshold[1] = 6
  /\ pc[1] = "returned"
  /\ \E k \in DOMAIN Returned(1) : \E j \in DOMAIN packets[k].persons :
        Reflagged(Returned(1), k, j) /\ Returned(1)[k].metrics.phone_count = 1
  /\ \E k \in DOMAIN Returned(1) : \E j \in DOMAIN packets[k].persons :
        packets[k].persons[j].phone_heuristic = Null

====
